---- MODULE Spec2Model ----
(***************************************************************************)
(* Model of the cassie term engine (src/term.rs, src/variable.rs):         *)
(* construction of Term trees, the "+" combinator and the recursive        *)
(* evaluator behind Term::evaluate and Term::reduce.                       *)
(*                                                                         *)
(* f64 values are modelled as exact rationals [n, d] in lowest terms with  *)
(* d >= 0; d = 0 encodes the non-finite results of IEEE division           *)
(* (n = 1: +inf, n = -1: -inf, n = 0: NaN).  The results of the libm       *)
(* functions at points where they have no rational value are kept as       *)
(* symbolic values [fn, arg].                                              *)
(***************************************************************************)
EXTENDS Integers, Sequences, FiniteSets, TLC

VARIABLES self, values, result, visited, call, lhs, rhs

vars == <<self, values, result, visited, call, lhs, rhs>>

(***************************************************************************)
(* Bounds of the model.                                                    *)
(***************************************************************************)
MaxNodes == 3

MaxLen == 2

ConstantInputs == {0, 2}

Symbols == {"x"}

TableKeys == {"x", "y"}

BoundInputs == {-4}

(***************************************************************************)
(* f64 arithmetic.                                                         *)
(***************************************************************************)
Abs(i) == IF i < 0 THEN -i ELSE i

Sign(i) == IF i < 0 THEN -1 ELSE IF i > 0 THEN 1 ELSE 0

RECURSIVE Gcd(_, _)
Gcd(a, b) == IF b = 0 THEN a ELSE Gcd(b, a % b)

Rat(n, d) ==
  IF d = 0 THEN [n |-> Sign(n), d |-> 0]
  ELSE LET g == Gcd(Abs(n), Abs(d))
       IN [n |-> (Sign(d) * n) \div g, d |-> Abs(d) \div g]

Num(i) == Rat(i, 1)

IsRat(v) == DOMAIN v = {"n", "d"}

Symbolic(fn, arg) == [fn |-> fn, arg |-> arg]

f64_add(a, b) ==
  IF IsRat(a) /\ IsRat(b)
  THEN IF a.d = 0 /\ b.d = 0
       THEN (IF a.n = b.n THEN a ELSE Rat(0, 0))
       ELSE Rat(a.n * b.d + b.n * a.d, a.d * b.d)
  ELSE Symbolic("add", <<a, b>>)

f64_sub(a, b) ==
  IF IsRat(a) /\ IsRat(b)
  THEN IF a.d = 0 /\ b.d = 0
       THEN (IF a.n = -b.n THEN a ELSE Rat(0, 0))
       ELSE Rat(a.n * b.d - b.n * a.d, a.d * b.d)
  ELSE Symbolic("sub", <<a, b>>)

f64_mul(a, b) ==
  IF IsRat(a) /\ IsRat(b)
  THEN Rat(a.n * b.n, a.d * b.d)
  ELSE Symbolic("mul", <<a, b>>)

f64_div(a, b) ==
  IF IsRat(a) /\ IsRat(b)
  THEN Rat(a.n * b.d, a.d * b.n)
  ELSE Symbolic("div", <<a, b>>)

\* -log10 of the literal 0.00000000000000001
ThresholdExp == 17

RECURSIVE DivPow10(_, _)
DivPow10(i, k) == IF k = 0 THEN i ELSE DivPow10(i \div 10, k - 1)

\* A guard that never fires.
BelowThresholdNever(v) == FALSE

\* dividend.abs() < 0.00000000000000001, decided on exact values:
\* |n|/d < 10^-17  <=>  |n| <= (d - 1) div 10^17.  False for inf and NaN.
BelowThreshold(v) ==
  /\ v.d # 0
  /\ Abs(v.n) <= DivPow10(v.d - 1, ThresholdExp)

\* The libm functions: exact where the result is rational, symbolic elsewhere.
sin(v) == IF v = Num(0) THEN Num(0) ELSE Symbolic("sin", v)

cos(v) == IF v = Num(0) THEN Num(1) ELSE Symbolic("cos", v)

tan(v) == IF v = Num(0) THEN Num(0) ELSE Symbolic("tan", v)

asin(v) == IF v = Num(0) THEN Num(0) ELSE Symbolic("asin", v)

acos(v) == IF v = Num(1) THEN Num(0) ELSE Symbolic("acos", v)

atan(v) == IF v = Num(0) THEN Num(0) ELSE Symbolic("atan", v)

(***************************************************************************)
(* Variable and Term.                                                      *)
(***************************************************************************)
named(symbol) == [symbol |-> symbol]

Variable(variable) == [kind |-> "Variable", variable |-> variable]

Constant(value) == [kind |-> "Constant", value |-> value]

Sum(terms) == [kind |-> "Sum", terms |-> terms]

Difference(terms) == [kind |-> "Difference", terms |-> terms]

Product(terms) == [kind |-> "Product", terms |-> terms]

Quotient(terms) == [kind |-> "Quotient", terms |-> terms]

Sine(term) == [kind |-> "Sine", term |-> term]

Cosine(term) == [kind |-> "Cosine", term |-> term]

Tangent(term) == [kind |-> "Tangent", term |-> term]

ArcSine(term) == [kind |-> "ArcSine", term |-> term]

ArcCosine(term) == [kind |-> "ArcCosine", term |-> term]

ArcTangent(term) == [kind |-> "ArcTangent", term |-> term]

NaryKinds == {"Sum", "Difference", "Product", "Quotient"}

TrigKinds == {"Sine", "Cosine", "Tangent", "ArcSine", "ArcCosine", "ArcTangent"}

\* Number of Term nodes of a tree.
RECURSIVE Size(_)
RECURSIVE SizeAll(_, _)
SizeAll(terms, i) ==
  IF i > Len(terms) THEN 0 ELSE Size(terms[i]) + SizeAll(terms, i + 1)

Size(term) ==
  IF term.kind \in NaryKinds THEN 1 + SizeAll(term.terms, 1)
  ELSE IF term.kind \in TrigKinds THEN 1 + Size(term.term)
  ELSE 1

RECURSIVE TrigFree(_)
TrigFree(term) ==
  IF term.kind \in NaryKinds
  THEN \A i \in 1..Len(term.terms) : TrigFree(term.terms[i])
  ELSE term.kind \notin TrigKinds

(***************************************************************************)
(* Result<f64, String>, plus the unwinding of a panic.                     *)
(***************************************************************************)
Ok(value) == [tag |-> "Ok", value |-> value]

Err(e) == [tag |-> "Err", e |-> e]

Panic == [tag |-> "Panic"]

is_err(r) == r.tag = "Err"

\* Option<&VariableValues>
None == [some |-> FALSE]

Some(v) == [some |-> TRUE, v |-> v]

(***************************************************************************)
(* Term::eval.  Every arm returns the Result together with the list of the *)
(* positions (1-based) of the direct children it evaluated, in order.  A   *)
(* panic in a child unwinds through every enclosing call.                  *)
(***************************************************************************)
Outcome(r, log) == [result |-> r, visited |-> log]

RECURSIVE eval(_, _)

\* A loop that takes a failed child as 0.0 and goes on.
RECURSIVE SumLoopIgnoringErrors(_, _, _, _, _)
SumLoopIgnoringErrors(terms, i, sum, log, vals) ==
  IF i > Len(terms) THEN Outcome(Ok(sum), log)
  ELSE LET r == eval(terms[i], vals)
       IN IF r.tag = "Ok"
          THEN SumLoopIgnoringErrors(terms, i + 1, f64_add(sum, r.value), Append(log, i), vals)
          ELSE SumLoopIgnoringErrors(terms, i + 1, sum, Append(log, i), vals)

\* for term in terms { match term.eval(values) { Ok => sum += value, Err(e) => return Err(e) } }
RECURSIVE SumLoop(_, _, _, _, _)
SumLoop(terms, i, sum, log, vals) ==
  IF i > Len(terms) THEN Outcome(Ok(sum), log)
  ELSE LET r == eval(terms[i], vals)
       IN IF r.tag = "Ok"
          THEN SumLoop(terms, i + 1, f64_add(sum, r.value), Append(log, i), vals)
          ELSE Outcome(r, Append(log, i))

SumArm(terms, vals) == SumLoop(terms, 1, Num(0), <<>>, vals)

\* for term in terms[1..].iter() { ... difference -= value ... }
RECURSIVE DifferenceLoop(_, _, _, _, _)
DifferenceLoop(terms, i, difference, log, vals) ==
  IF i > Len(terms) THEN Outcome(Ok(difference), log)
  ELSE LET r == eval(terms[i], vals)
       IN IF r.tag = "Ok"
          THEN DifferenceLoop(terms, i + 1, f64_sub(difference, r.value), Append(log, i), vals)
          ELSE Outcome(r, Append(log, i))

\* A loop over all of terms.
DifferenceStartAll == 2 - 1

\* The first position of the loop over terms[1..]
DifferenceStart == 2

DifferenceArm(terms, vals) ==
  IF Len(terms) = 0 THEN Outcome(Panic, <<>>)
  ELSE LET first == eval(terms[1], vals)
       IN IF first.tag # "Ok" THEN Outcome(first, <<1>>)
          ELSE DifferenceLoop(terms, DifferenceStart, first.value, <<1>>, vals)

RECURSIVE ProductLoop(_, _, _, _, _)
ProductLoop(terms, i, product, log, vals) ==
  IF i > Len(terms) THEN Outcome(Ok(product), log)
  ELSE LET r == eval(terms[i], vals)
       IN IF r.tag = "Ok"
          THEN ProductLoop(terms, i + 1, f64_mul(product, r.value), Append(log, i), vals)
          ELSE Outcome(r, Append(log, i))

ProductArm(terms, vals) == ProductLoop(terms, 1, Num(1), <<>>, vals)

\* for term in terms { ... if dividend.abs() < 1e-17 { return Err } quotient /= dividend ... }
RECURSIVE QuotientLoop(_, _, _, _, _)
QuotientLoop(terms, i, quotient, log, vals) ==
  IF i > Len(terms) THEN Outcome(Ok(quotient), log)
  ELSE LET r == eval(terms[i], vals)
       IN IF r.tag = "Ok"
          THEN IF BelowThreshold(r.value)
               THEN Outcome(Err("Attempted division by zero."), Append(log, i))
               ELSE QuotientLoop(terms, i + 1, f64_div(quotient, r.value), Append(log, i), vals)
          ELSE Outcome(r, Append(log, i))

\* A loop over terms[1..].
QuotientStartFollowing == 1 + 1

\* The first position of the loop over terms
QuotientStart == 1

QuotientArm(terms, vals) ==
  IF Len(terms) = 0 THEN Outcome(Panic, <<>>)
  ELSE LET first == eval(terms[1], vals)
       IN IF first.tag # "Ok" THEN Outcome(first, <<1>>)
          ELSE QuotientLoop(terms, QuotientStart, first.value, <<1>>, vals)

\* A lookup that takes an unresolved variable as 0.0.
VariableArmDefaulting(variable, vals) ==
  IF vals.some /\ variable.symbol \in DOMAIN vals.v
  THEN Ok(vals.v[variable.symbol])
  ELSE Ok(Num(0))

VariableArm(variable, vals) ==
  IF vals.some
  THEN IF variable.symbol \in DOMAIN vals.v
       THEN Ok(vals.v[variable.symbol])
       ELSE Err("No value provided for variable " \o variable.symbol)
  ELSE Err("No variable values provided (looking for " \o variable.symbol \o ")")

\* match term.eval(values) { Ok(value) => Ok(f(value)), Err(e) => Err(e) }
TrigArm(kind, r) ==
  IF r.tag = "Ok"
  THEN Ok(CASE kind = "Sine" -> sin(r.value)
            [] kind = "Cosine" -> cos(r.value)
            [] kind = "Tangent" -> tan(r.value)
            [] kind = "ArcSine" -> asin(r.value)
            [] kind = "ArcCosine" -> acos(r.value)
            [] kind = "ArcTangent" -> atan(r.value))
  ELSE r

eval_traced(term, vals) ==
  CASE term.kind = "Constant" -> Outcome(Ok(term.value), <<>>)
    [] term.kind = "Sum" -> SumArm(term.terms, vals)
    [] term.kind = "Difference" -> DifferenceArm(term.terms, vals)
    [] term.kind = "Product" -> ProductArm(term.terms, vals)
    [] term.kind = "Quotient" -> QuotientArm(term.terms, vals)
    [] term.kind = "Variable" -> Outcome(VariableArm(term.variable, vals), <<>>)
    [] term.kind \in TrigKinds -> Outcome(TrigArm(term.kind, eval(term.term, vals)), <<1>>)

eval(term, vals) == eval_traced(term, vals).result

evaluate(term, v) == eval_traced(term, Some(v))

reduce(term) == eval_traced(term, None)

(***************************************************************************)
(* impl Add<&Term> for &Term, and impl Add for Term.                       *)
(***************************************************************************)
\* A combinator that never flattens.
add_nesting(this, another) == Sum(<<this, another>>)

add(this, another) ==
  IF this.kind = "Sum"
  THEN IF another.kind = "Sum"
       THEN Sum(this.terms \o another.terms)
       ELSE Sum(Append(this.terms, another))
  ELSE IF another.kind = "Sum"
       THEN Sum(Append(another.terms, this))
       ELSE Sum(<<this, another>>)

add_owned(this, another) == add(this, another)

(***************************************************************************)
(* The state machine: a caller builds a Term (self), combines it with      *)
(* another one through "+", and evaluates it.                              *)
(***************************************************************************)
NoTerm == [kind |-> "none"]

NoResult == [tag |-> "none"]

LeafTerms ==
  {Constant(Num(c)) : c \in ConstantInputs} \cup {Variable(named(s)) : s \in Symbols}

\* The vectors a caller passes to an n-ary variant: earlier terms and leaves.
TermVecs == UNION {[1..n -> LeafTerms \cup {self}] : n \in 0..MaxLen}

\* The other operand of "+".
AddInputs ==
  LeafTerms \cup {Sum(s) : s \in UNION {[1..n -> LeafTerms] : n \in 0..MaxLen}}

\* The binding tables a caller passes to evaluate.
Tables == UNION {[S -> {Num(b) : b \in BoundInputs}] : S \in SUBSET TableKeys}

TypeOK ==
  /\ self.kind \in NaryKinds \cup TrigKinds \cup {"Constant", "Variable"}
  /\ Size(self) <= MaxNodes
  /\ result.tag \in {"none", "Ok", "Err", "Panic"}
  /\ call \in {"new", "add", "evaluate", "reduce"}

Built(term) ==
  /\ Size(term) <= MaxNodes
  /\ self' = term
  /\ call' = "new"
  /\ values' = None
  /\ result' = NoResult
  /\ visited' = <<>>
  /\ lhs' = NoTerm
  /\ rhs' = NoTerm

Init ==
  /\ self \in LeafTerms
  /\ call = "new"
  /\ values = None
  /\ result = NoResult
  /\ visited = <<>>
  /\ lhs = NoTerm
  /\ rhs = NoTerm

MkConstant == \E c \in ConstantInputs : Built(Constant(Num(c)))

MkVariable == \E s \in Symbols : Built(Variable(named(s)))

MkSum == \E terms \in TermVecs : Built(Sum(terms))

MkDifference == \E terms \in TermVecs : Built(Difference(terms))

MkProduct == \E terms \in TermVecs : Built(Product(terms))

\* The near-zero test is decided on exact values only.
MkQuotient ==
  \E terms \in TermVecs :
    /\ \A i \in 1..Len(terms) : TrigFree(terms[i])
    /\ Built(Quotient(terms))

MkSine == Built(Sine(self))

MkCosine == Built(Cosine(self))

MkTangent == Built(Tangent(self))

MkArcSine == Built(ArcSine(self))

MkArcCosine == Built(ArcCosine(self))

MkArcTangent == Built(ArcTangent(self))

Added(this, another, out) ==
  /\ Size(out) <= MaxNodes
  /\ self' = out
  /\ call' = "add"
  /\ lhs' = this
  /\ rhs' = another
  /\ values' = None
  /\ result' = NoResult
  /\ visited' = <<>>

\* &self + &another, with self on either side
AddRef ==
  \E other \in AddInputs :
    \/ Added(self, other, add(self, other))
    \/ Added(other, self, add(other, self))

\* self + another (consuming)
AddOwned ==
  \E other \in AddInputs :
    \/ Added(self, other, add_owned(self, other))
    \/ Added(other, self, add_owned(other, self))

Evaluated(name, vals, outcome) ==
  /\ call' = name
  /\ values' = vals
  /\ result' = outcome.result
  /\ visited' = outcome.visited
  /\ lhs' = NoTerm
  /\ rhs' = NoTerm
  /\ UNCHANGED self

Evaluate == \E v \in Tables : Evaluated("evaluate", Some(v), evaluate(self, v))

Reduce == Evaluated("reduce", None, reduce(self))

Next ==
  \/ MkConstant
  \/ MkVariable
  \/ MkSum
  \/ MkDifference
  \/ MkProduct
  \/ MkQuotient
  \/ MkSine
  \/ MkCosine
  \/ MkTangent
  \/ MkArcSine
  \/ MkArcCosine
  \/ MkArcTangent
  \/ AddRef
  \/ AddOwned
  \/ Evaluate
  \/ Reduce

Spec == Init /\ [][Next]_vars

(***************************************************************************)
(* Properties.                                                             *)
(***************************************************************************)
Evaluating == call \in {"evaluate", "reduce"}

Children(term) == IF term.kind \in NaryKinds THEN term.terms ELSE <<term.term>>

\* The Result of evaluating the i-th direct child of self on its own.
ChildResult(i) == eval(Children(self)[i], values)

AllConstants(terms) ==
  /\ Len(terms) > 0
  /\ \A i \in 1..Len(terms) : terms[i].kind = "Constant"

\* c1 op c2 op ... op cn, associated to the left.
RECURSIVE Chain(_, _, _)
Chain(kind, terms, n) ==
  IF n = 1 THEN terms[1].value
  ELSE LET front == Chain(kind, terms, n - 1)
           last == terms[n].value
       IN CASE kind = "Sum" -> f64_add(front, last)
            [] kind = "Product" -> f64_mul(front, last)
            [] kind = "Difference" -> f64_sub(front, last)

\* C1: a Sum, Product or Difference of a non-empty sequence of constants
\* evaluates (reduce, or evaluate with any table) to c0+...+cn, c0*...*cn,
\* c0-...-cn respectively, taken left to right.
C1_ConstantFolds ==
  (/\ Evaluating
   /\ self.kind \in {"Sum", "Product", "Difference"}
   /\ AllConstants(self.terms))
  => result = Ok(Chain(self.kind, self.terms, Len(self.terms)))

C1_Witness ==
  /\ Evaluating
  /\ self.kind = "Difference"
  /\ AllConstants(self.terms)
  /\ Len(self.terms) = 2
  /\ self.terms[1].value # Num(0)
  /\ self.terms[1].value # self.terms[2].value
  /\ result.tag = "Ok"

\* C2: a non-Sum L plus Sum(rs) is the Sum of [L] followed by rs.
C2_NonSumPlusSumPrepends ==
  (call = "add" /\ lhs.kind # "Sum" /\ rhs.kind = "Sum")
  => self = Sum(<<lhs>> \o rhs.terms)

\* What an operand of "+" contributes: its children if it is a Sum, else itself.
Operands(term) == IF term.kind = "Sum" THEN term.terms ELSE <<term>>

NoSumAmong(terms) == \A i \in 1..Len(terms) : terms[i].kind # "Sum"

\* C3: in the cases other than (non-Sum + Sum) the result of "+" is the Sum
\* of the left operand's contribution followed by the right operand's, and
\* it has no Sum as a direct child when the operands' child lists had none.
C3_AddFlattens ==
  (call = "add" /\ ~(lhs.kind # "Sum" /\ rhs.kind = "Sum"))
  => /\ self = Sum(Operands(lhs) \o Operands(rhs))
     /\ (NoSumAmong(Operands(lhs)) /\ NoSumAmong(Operands(rhs)))
          => NoSumAmong(self.terms)

C3_Witness ==
  /\ call = "add"
  /\ lhs.kind = "Sum"
  /\ rhs.kind = "Sum"
  /\ Len(lhs.terms) > 0
  /\ Len(rhs.terms) > 0
  /\ lhs.terms # rhs.terms
  /\ self.kind = "Sum"

\* |n| * 10^k < d, without forming 10^k
RECURSIVE ScaledLess(_, _, _)
ScaledLess(n, d, k) ==
  IF k = 0 THEN n < d
  ELSE IF n = 0 THEN d > 0
  ELSE IF n * 10 >= d THEN FALSE
  ELSE ScaledLess(n * 10, d, k - 1)

NearZero(v) == v.d # 0 /\ ScaledLess(Abs(v.n), v.d, ThresholdExp)

\* self is a Quotient all of whose children evaluate to a value that is not
\* near zero.
QuotientOfGoodChildren ==
  /\ Evaluating
  /\ self.kind = "Quotient"
  /\ Len(self.terms) > 0
  /\ \A i \in 1..Len(self.terms) :
        /\ ChildResult(i).tag = "Ok"
        /\ ~NearZero(ChildResult(i).value)

\* acc / v_from / ... / v_n over the children's values
RECURSIVE DividedBy(_, _, _)
DividedBy(acc, from, n) ==
  IF n < from THEN acc
  ELSE f64_div(DividedBy(acc, from, n - 1), ChildResult(n).value)

C5_QuotientDividesByFollowing ==
  QuotientOfGoodChildren
  => result = Ok(DividedBy(ChildResult(1).value, 2, Len(self.terms)))

DivisionByZero == Err("Attempted division by zero.")

MissingBindings(symbol) == Err("No variable values provided (looking for " \o symbol \o ")")

UnboundVariable(symbol) == Err("No value provided for variable " \o symbol)

C8_NeverPanics == Evaluating => result.tag \in {"Ok", "Err"}

EmptyTable == [s \in {} |-> Num(0)]

\* C9: reduce() returns what evaluate(empty table) returns.
C9_ReduceIsEvaluateEmpty ==
  call = "reduce" => result = evaluate(self, EmptyTable).result

Last(s) == s[Len(s)]

\* C10: a composite evaluates its children in ascending order; the first
\* child that fails ends it, its failure is the composite's result, no later
\* child is evaluated, and a numeric result needs every child to succeed.
C10_FirstFailureAborts ==
  (Evaluating /\ self.kind \in NaryKinds \cup TrigKinds)
  => LET n == Len(Children(self))
     IN /\ \A k \in 1..Len(visited) : visited[k] \in 1..n
        /\ visited # <<>> => visited[1] = 1
        /\ \A k \in 1..(Len(visited) - 1) : visited[k + 1] - visited[k] \in {0, 1}
        /\ \A k \in 1..Len(visited) :
              is_err(ChildResult(visited[k]))
              => (k = Len(visited) /\ result = ChildResult(visited[k]))
        /\ result.tag = "Ok"
              => \A i \in 1..n :
                   /\ ChildResult(i).tag = "Ok"
                   /\ \E k \in 1..Len(visited) : visited[k] = i
        /\ (visited # <<>> /\ is_err(ChildResult(Last(visited))))
              => \A i \in 1..(Last(visited) - 1) :
                   /\ ChildResult(i).tag = "Ok"
                   /\ \E k \in 1..Len(visited) : visited[k] = i

C10_Witness ==
  /\ Evaluating
  /\ self.kind \in NaryKinds
  /\ Len(self.terms) = 2
  /\ ChildResult(1).tag = "Ok"
  /\ is_err(ChildResult(2))
  /\ result = ChildResult(2)

====
